---- MODULE Spec2Model ----
(***************************************************************************)
(* The product store of server.ts: the in-memory list `products`, the id   *)
(* counter `nextId`, and the four resolvers (products, addProduct,         *)
(* updateProduct, removeProduct), each run to completion on the single     *)
(* JavaScript thread.                                                      *)
(***************************************************************************)
EXTENDS Integers, Sequences, FiniteSets, TLC

(* ---------------------------------------------------------------- bounds *)
MaxAdds == 4        \* addProduct calls explored (caps nextId)
MaxPage == 3        \* largest page argument explored
MaxPerPage == 3     \* largest perPage argument explored
MaxNegative == 2    \* page and perPage arguments go down to -MaxNegative
NumClients == 2     \* clients with a request at the server at the same time
MaxRequests == 7    \* requests the page sends (a mutation counts its refetch)

\* page: Int!, perPage: Int!
Pages == (0 - MaxNegative)..MaxPage
PerPages == (0 - MaxNegative)..MaxPerPage

\* (name, price, stock) argument triples; prices in cents
Inputs == { [name |-> "Widget", price |-> 999, stock |-> 5],
            [name |-> "Gadget", price |-> 750, stock |-> 3] }

(* ------------------------------------------------------- pure operators *)
Min(a, b) == IF a < b THEN a ELSE b
Max(a, b) == IF a > b THEN a ELSE b

Digit(d) ==
    CASE d = 0 -> "0" [] d = 1 -> "1" [] d = 2 -> "2" [] d = 3 -> "3"
      [] d = 4 -> "4" [] d = 5 -> "5" [] d = 6 -> "6" [] d = 7 -> "7"
      [] d = 8 -> "8" [] d = 9 -> "9"

\* String(n) of a non-negative integer: its decimal digits
RECURSIVE String(_)
String(n) == IF n < 10 THEN Digit(n) ELSE String(n \div 10) \o Digit(n % 10)

\* id arguments a client may send: every id the counter can produce, one it
\* has not produced yet, and strings that are not the decimal form of a count
IdInputs == { String(k) : k \in 1..(MaxAdds + 1) } \cup { "01", "" }

\* Array.prototype.slice: a negative index counts from the end, both indices
\* are clamped to 0..length, and an empty range gives the empty array
RelIndex(len, i) == IF i < 0 THEN Max(len + i, 0) ELSE Min(i, len)

Slice(arr, start, end) ==
    LET k == RelIndex(Len(arr), start)
        final == RelIndex(Len(arr), end)
    IN  IF final > k THEN SubSeq(arr, k + 1, final) ELSE << >>

\* Array.prototype.findIndex with (product) => product.id === id:
\* the 0-based index of the first match, -1 without one
FindIndex(arr, id) ==
    IF \E i \in 1..Len(arr) : arr[i].id = id
    THEN (CHOOSE i \in 1..Len(arr) :
              /\ arr[i].id = id
              /\ \A j \in 1..(i - 1) : arr[j].id # id) - 1
    ELSE -1

\* Array.prototype.splice(start, deleteCount): the deleted elements ...
SpliceStart(len, start) == IF start < 0 THEN Max(len + start, 0) ELSE Min(start, len)
SpliceCount(len, start, deleteCount) ==
    Min(Max(deleteCount, 0), len - SpliceStart(len, start))

SpliceDeleted(arr, start, deleteCount) ==
    LET s == SpliceStart(Len(arr), start)
        c == SpliceCount(Len(arr), start, deleteCount)
    IN  SubSeq(arr, s + 1, s + c)

\* ... and the array it leaves behind
SpliceRemaining(arr, start, deleteCount) ==
    LET s == SpliceStart(Len(arr), start)
        c == SpliceCount(Len(arr), start, deleteCount)
    IN  SubSeq(arr, 1, s) \o SubSeq(arr, s + c + 1, Len(arr))

\* unshift where push was meant
PushFront(arr, p) == << p >> \o arr

\* Array.prototype.push
Push(arr, p) == Append(arr, p)

\* the record taken out and re-appended instead of assigned in place
AssignAtMoveLast(arr, idx, p) == SpliceRemaining(arr, idx, 1) \o << p >>

\* products[productIndex] = updatedProduct  (0-based index)
AssignAt(arr, idx, p) == [arr EXCEPT ![idx + 1] = p]

Ids(arr) == { arr[i].id : i \in 1..Len(arr) }

(* ------------------------------------------------------------ the state *)
VARIABLES
    products,   \* the list of records
    nextId,     \* the id counter
    last,       \* the request served last and its arguments
    ret,        \* what that resolver returned
    pre,        \* the store as that resolver found it
    issued,     \* ids returned by addProduct, in call order
    removed,    \* ids of the records removeProduct has taken out
    running,    \* the request whose resolver is on the call stack, 0 for none
    calls,      \* per concurrent request: how far its resolver has got
    serial,     \* the store after the completed requests, applied one by one
    formVisible,    \* useState(false): the modal form is open
    editingProduct, \* useState(null): << >> for null, else << record >>
    curPage,        \* the state `page`, useState(1)
    curPerPage,     \* the state `perPage`, useState(10)
    fields,         \* the form's field values: << >> when empty, else << text >>
    cache,          \* the client cache: per (page, perPage) the list of ids fetched
    entities,       \* the client cache: the record last received for each id
    net,            \* requests on their way to the server, responses on their way back
    sent,           \* requests the page has sent or reserved
    uiLast,         \* the page's last step, with the notifications it showed
    opened,         \* the button that opened the form now open, and the row's id
    lost            \* a mutation or its response was lost on the network

storeVars == << products, nextId, last, ret, pre, issued, removed >>
callVars == << running, calls, serial >>
viewVars == << formVisible, editingProduct, curPage, curPerPage, fields, cache,
              entities, net, sent, uiLast, opened, lost >>
otherVars == << callVars, viewVars >>
vars == << storeVars, otherVars >>

\* a resolver's return value: null, one record, or a list of records
Null == [kind |-> "null", val |-> << >>]
One(p) == [kind |-> "product", val |-> << p >>]
List(arr) == [kind |-> "list", val |-> arr]

Request(op, page, perPage, id, in) ==
    [op |-> op, page |-> page, perPage |-> perPage, id |-> id,
     name |-> in.name, price |-> in.price, stock |-> in.stock]

NoInput == [name |-> "", price |-> 0, stock |-> 0]

Snapshot == [products |-> products, nextId |-> nextId, removed |-> removed]

\* the module's state after `const products = []; let nextId = 1`
InitStore ==
    /\ products = << >>
    /\ nextId = 1
    /\ last = Request("none", 0, 0, "", NoInput)
    /\ ret = Null
    /\ pre = [products |-> << >>, nextId |-> 1, removed |-> {}]
    /\ issued = << >>
    /\ removed = {}

Clients == 1..NumClients

\* no resolver has been entered
IdleCall == [pc |-> "idle", req |-> Request("none", 0, 0, "", NoInput),
             productIndex |-> -1, newProduct |-> << >>,
             seen |-> [products |-> << >>, nextId |-> 1, removed |-> {}]]

InitCalls ==
    /\ running = 0
    /\ calls = [c \in Clients |-> IdleCall]
    /\ serial = [products |-> << >>, nextId |-> 1]

(* ------------------------------------------------------------------- *)
(* The page (InventoryManagement and ProductForm) as it is mounted        *)
(* ------------------------------------------------------------------- *)
DefaultPage == 1
DefaultPerPage == 10

\* the pages and page sizes the table's pagination hands to onChange: the
\* store holds less than one page of records, so the pager offers page 1
ViewPages == { DefaultPage }
ViewPerPages == { DefaultPerPage, 20 }
ViewKeys == ViewPages \X ViewPerPages

\* what the page did last: the event, the request it concerns, the handler's
\* outcome, the refetch variables, a detail (the row clicked, the failure's
\* message) and the form state the step found
UiStep(event, n, op, outcome, rpage, rperPage, detail) ==
    [event |-> event, n |-> n, op |-> op, outcome |-> outcome,
     rpage |-> rpage, rperPage |-> rperPage, detail |-> detail,
     shown |-> << >>,
     wasVisible |-> IF event = "completed" THEN formVisible ELSE FALSE,
     wasEditing |-> IF event = "completed" THEN editingProduct ELSE << >>]

\* a step the properties do not look back at
OtherStep ==
    [event |-> "other", n |-> 0, op |-> "", outcome |-> "",
     rpage |-> 0, rperPage |-> 0, detail |-> "", shown |-> << >>,
     wasVisible |-> FALSE, wasEditing |-> << >>]

\* a GraphQL operation on the wire; rpage and rperPage are the variables of
\* the refetchQueries entry the mutation was sent with
Message(n, dir, kind, pg, pp, id, in, rpage, rperPage) ==
    [n |-> n, dir |-> dir, kind |-> kind, page |-> pg, perPage |-> pp, id |-> id,
     name |-> in.name, price |-> in.price, stock |-> in.stock,
     rpage |-> rpage, rperPage |-> rperPage, res |-> Null, error |-> ""]

\* useQuery(GET_PRODUCTS, { variables: { page, perPage } }) on first render
FirstQuery ==
    Message(1, "request", "query", DefaultPage, DefaultPerPage, "", NoInput, 0, 0)

InitView ==
    /\ formVisible = FALSE
    /\ editingProduct = << >>
    /\ curPage = DefaultPage
    /\ curPerPage = DefaultPerPage
    /\ fields = << >>
    /\ cache = [k \in ViewKeys |-> [known |-> FALSE, ids |-> << >>]]
    /\ entities = {}
    /\ net = { FirstQuery }
    /\ sent = 1
    /\ uiLast = [event |-> "mount", n |-> 1, op |-> "query", outcome |-> "",
                 rpage |-> 0, rperPage |-> 0,
                 detail |-> "", shown |-> << >>,
                 wasVisible |-> FALSE, wasEditing |-> << >>]
    /\ opened = [by |-> "none", id |-> ""]
    /\ lost = FALSE

Init == InitStore /\ InitCalls /\ InitView

(* ------------------------------------------------------ Query.products *)
ProductsPage(arr, page, perPage) ==
    Slice(arr, (page - 1) * perPage, page * perPage)

QueryProducts ==
    \E page \in Pages, perPage \in PerPages :
        /\ ret' = List(ProductsPage(products, page, perPage))
        /\ last' = Request("products", page, perPage, "", NoInput)
        /\ pre' = Snapshot
        /\ UNCHANGED << products, nextId, issued, removed >>
        /\ UNCHANGED otherVars

(* ------------------------------------------------- Mutation.addProduct *)
\* the id derived from the list length instead of the counter
NewProductStaleId(nid, name, price, stock) ==
    [id |-> String(Len(products) + 1), name |-> name, price |-> price, stock |-> stock]

\* String(++nextId) where String(nextId++) was meant
NewProductPreIncrement(nid, name, price, stock) ==
    [id |-> String(nid + 1), name |-> name, price |-> price, stock |-> stock]

\* { id: String(nextId++), name, price, stock }: nid is the counter before
\* the increment
NewProduct(nid, name, price, stock) ==
    [id |-> String(nid), name |-> name, price |-> price, stock |-> stock]

AddProduct ==
    \E in \in Inputs :
        /\ nextId <= MaxAdds
        /\ LET newProduct == NewProduct(nextId, in.name, in.price, in.stock)
           IN  /\ nextId' = nextId + 1
               /\ products' = Push(products, newProduct)
               /\ ret' = One(newProduct)
               /\ issued' = Append(issued, newProduct.id)
        /\ last' = Request("addProduct", 0, 0, "", in)
        /\ pre' = Snapshot
        /\ UNCHANGED removed
        /\ UNCHANGED otherVars

(* ---------------------------------------------- Mutation.updateProduct *)
\* an update that inserts the record when no id matches
UpdateProductListUpsert(arr, id, name, price, stock) ==
    LET productIndex == FindIndex(arr, id)
        updatedProduct == [id |-> id, name |-> name, price |-> price, stock |-> stock]
    IN  IF productIndex = -1
        THEN Push(arr, updatedProduct)
        ELSE AssignAt(arr, productIndex, updatedProduct)

UpdateProductList(arr, id, name, price, stock) ==
    LET productIndex == FindIndex(arr, id)
    IN  IF productIndex = -1
        THEN arr
        ELSE AssignAt(arr, productIndex,
                      [id |-> id, name |-> name, price |-> price, stock |-> stock])

UpdateProductRet(arr, id, name, price, stock) ==
    IF FindIndex(arr, id) = -1
    THEN Null
    ELSE One([id |-> id, name |-> name, price |-> price, stock |-> stock])

UpdateProduct ==
    \E id \in IdInputs, in \in Inputs :
        /\ products' = UpdateProductList(products, id, in.name, in.price, in.stock)
        /\ ret' = UpdateProductRet(products, id, in.name, in.price, in.stock)
        /\ last' = Request("updateProduct", 0, 0, id, in)
        /\ pre' = Snapshot
        /\ UNCHANGED << nextId, issued, removed >>
        /\ UNCHANGED otherVars

(* ---------------------------------------------- Mutation.removeProduct *)
\* splice(productIndex) without the deleteCount: drops the whole tail
RemoveProductListNoCount(arr, id) ==
    LET productIndex == FindIndex(arr, id)
    IN  IF productIndex = -1
        THEN arr
        ELSE SpliceRemaining(arr, productIndex, Len(arr))

\* the -1 check left out: splice(-1, 1) takes out the last record
RemoveProductListNoCheck(arr, id) ==
    SpliceRemaining(arr, FindIndex(arr, id), 1)

RemoveProductList(arr, id) ==
    LET productIndex == FindIndex(arr, id)
    IN  IF productIndex = -1 THEN arr ELSE SpliceRemaining(arr, productIndex, 1)

RemoveProductRet(arr, id) ==
    LET productIndex == FindIndex(arr, id)
    IN  IF productIndex = -1 THEN Null ELSE One(SpliceDeleted(arr, productIndex, 1)[1])

RemoveProduct ==
    \E id \in IdInputs :
        /\ products' = RemoveProductList(products, id)
        /\ ret' = RemoveProductRet(products, id)
        /\ removed' = removed \cup { r.id : r \in { ret'.val[i] : i \in 1..Len(ret'.val) } }
        /\ last' = Request("removeProduct", 0, 0, id, NoInput)
        /\ pre' = Snapshot
        /\ UNCHANGED << nextId, issued >>
        /\ UNCHANGED otherVars

Next == QueryProducts \/ AddProduct \/ UpdateProduct \/ RemoveProduct

Spec == Init /\ [][Next]_vars

(* ------------------------------------------------------------------- *)
(* Concurrent requests.  Apollo Server calls a resolver when a request   *)
(* arrives; the resolvers are synchronous functions (no await, no        *)
(* callback), so a resolver that has started runs to its return before   *)
(* the event loop starts another.  Each resolver is split here into its  *)
(* reads and its writes, in statement order.                             *)
(* ------------------------------------------------------------------- *)
\* the event loop hands the thread to any request though one is running
MayEnterAnytime(c) == TRUE

\* a resolver is entered only when no other is on the call stack
MayEnter(c) == running = 0

InitConcurrent == InitStore /\ InitCalls /\ InitView

\* listing arguments of the concurrent clients: every page of one page size
\* (negative and zero arguments are explored by the sequential actions)
ClientPages == 1..MaxPage
ClientPerPages == { MaxPerPage }

\* products.slice(...) is one expression: the whole query in one step
CallProducts(c) ==
    \E page \in ClientPages, perPage \in ClientPerPages :
        /\ calls[c].pc = "idle"
        /\ MayEnter(c)
        /\ ret' = List(ProductsPage(products, page, perPage))
        /\ last' = Request("products", page, perPage, "", NoInput)
        /\ pre' = Snapshot
        /\ UNCHANGED << products, nextId, issued, removed, callVars, viewVars >>

\* const newProduct = { id: String(nextId++), name, price, stock }
AddProductBegin(c) ==
    \E in \in Inputs :
        /\ calls[c].pc = "idle"
        /\ MayEnter(c)
        /\ nextId <= MaxAdds
        /\ calls' = [calls EXCEPT ![c] =
               [pc |-> "push", req |-> Request("addProduct", 0, 0, "", in),
                productIndex |-> -1,
                newProduct |-> << NewProduct(nextId, in.name, in.price, in.stock) >>,
                seen |-> Snapshot]]
        /\ nextId' = nextId + 1
        /\ running' = c
        /\ UNCHANGED << products, last, ret, pre, issued, removed, serial, viewVars >>

\* products.push(newProduct); return newProduct
AddProductEnd(c) ==
    /\ calls[c].pc = "push"
    /\ LET newProduct == calls[c].newProduct[1]
           in == [name |-> calls[c].req.name, price |-> calls[c].req.price,
                  stock |-> calls[c].req.stock]
       IN  /\ products' = Push(products, newProduct)
           /\ ret' = One(newProduct)
           /\ issued' = Append(issued, newProduct.id)
           /\ serial' = [products |-> Push(serial.products,
                                           NewProduct(serial.nextId, in.name,
                                                      in.price, in.stock)),
                         nextId |-> serial.nextId + 1]
    /\ last' = calls[c].req
    /\ pre' = calls[c].seen
    /\ calls' = [calls EXCEPT ![c] = IdleCall]
    /\ running' = 0
    /\ UNCHANGED << nextId, removed, viewVars >>

\* const productIndex = products.findIndex(...)
UpdateProductBegin(c) ==
    \E id \in IdInputs, in \in Inputs :
        /\ calls[c].pc = "idle"
        /\ MayEnter(c)
        /\ calls' = [calls EXCEPT ![c] =
               [pc |-> "assign", req |-> Request("updateProduct", 0, 0, id, in),
                productIndex |-> FindIndex(products, id),
                newProduct |-> << >>, seen |-> Snapshot]]
        /\ running' = c
        /\ UNCHANGED << storeVars, serial, viewVars >>

\* if (productIndex === -1) return null;
\* products[productIndex] = updatedProduct; return updatedProduct
UpdateProductEnd(c) ==
    /\ calls[c].pc = "assign"
    /\ LET r == calls[c].req
           updatedProduct == [id |-> r.id, name |-> r.name, price |-> r.price,
                              stock |-> r.stock]
       IN  /\ IF calls[c].productIndex = -1
              THEN /\ ret' = Null
                   /\ UNCHANGED products
              ELSE /\ products' = AssignAt(products, calls[c].productIndex,
                                           updatedProduct)
                   /\ ret' = One(updatedProduct)
           /\ serial' = [serial EXCEPT !.products =
                             UpdateProductList(serial.products, r.id, r.name,
                                               r.price, r.stock)]
    /\ last' = calls[c].req
    /\ pre' = calls[c].seen
    /\ calls' = [calls EXCEPT ![c] = IdleCall]
    /\ running' = 0
    /\ UNCHANGED << nextId, issued, removed, viewVars >>

\* const productIndex = products.findIndex(...)
RemoveProductBegin(c) ==
    \E id \in IdInputs :
        /\ calls[c].pc = "idle"
        /\ MayEnter(c)
        /\ calls' = [calls EXCEPT ![c] =
               [pc |-> "splice", req |-> Request("removeProduct", 0, 0, id, NoInput),
                productIndex |-> FindIndex(products, id),
                newProduct |-> << >>, seen |-> Snapshot]]
        /\ running' = c
        /\ UNCHANGED << storeVars, serial, viewVars >>

\* if (productIndex === -1) return null;
\* return products.splice(productIndex, 1)[0]
RemoveProductEnd(c) ==
    /\ calls[c].pc = "splice"
    /\ IF calls[c].productIndex = -1
       THEN /\ ret' = Null
            /\ UNCHANGED << products, removed >>
       ELSE LET deleted == SpliceDeleted(products, calls[c].productIndex, 1)
            IN  /\ products' = SpliceRemaining(products, calls[c].productIndex, 1)
                /\ ret' = IF deleted = << >> THEN Null ELSE One(deleted[1])
                /\ removed' = removed \cup Ids(deleted)
    /\ serial' = [serial EXCEPT !.products =
                      RemoveProductList(serial.products, calls[c].req.id)]
    /\ last' = calls[c].req
    /\ pre' = calls[c].seen
    /\ calls' = [calls EXCEPT ![c] = IdleCall]
    /\ running' = 0
    /\ UNCHANGED << nextId, issued, viewVars >>

NextConcurrent ==
    \E c \in Clients :
        \/ CallProducts(c)
        \/ AddProductBegin(c)
        \/ AddProductEnd(c)
        \/ UpdateProductBegin(c)
        \/ UpdateProductEnd(c)
        \/ RemoveProductBegin(c)
        \/ RemoveProductEnd(c)

SpecConcurrent == InitConcurrent /\ [][NextConcurrent]_vars

(* ------------------------------------------------------------------- *)
(* The page and the server together: one browser page, its requests and  *)
(* responses in flight, and the store.  The server answers the requests  *)
(* in any order; a mutation or its response can be lost, which the page  *)
(* sees as a failed mutation.                                            *)
(* ------------------------------------------------------------------- *)
\* the text an <Input> shows for a number, and the number parsed back
RECURSIVE Digits(_)
Digits(n) == IF n < 10 THEN << n >> ELSE Append(Digits(n \div 10), n % 10)

RECURSIVE ParseDigits(_)
ParseDigits(text) ==
    IF text = << >>
    THEN 0
    ELSE ParseDigits(SubSeq(text, 1, Len(text) - 1)) * 10 + text[Len(text)]

ParseFloat(text) == ParseDigits(text)
ParseInt(text) == ParseDigits(text)

\* form.setFieldsValue(initialValues)
FormText(rec) ==
    [name |-> rec.name, price |-> Digits(rec.price), stock |-> Digits(rec.stock)]

\* { name: values.name, price: parseFloat(values.price), stock: parseInt(values.stock) }
FormValues(text) ==
    [name |-> text.name, price |-> ParseFloat(text.price), stock |-> ParseInt(text.stock)]

\* what the user can type into the three fields
TypedText == { FormText(in) : in \in { i \in Inputs : i.name = "Widget" } }

\* the useEffect of ProductForm, and form.resetFields() with the current
\* initialValues: the selected record's values, or empty fields
FieldsFor(editing) ==
    IF editing = << >> THEN << >> ELSE << FormText(editing[1]) >>

\* handleCreate whatever is selected
OnCreateAlwaysCreate(editing) == "addProduct"

\* onCreate={editingProduct ? handleUpdate : handleCreate}
OnCreate(editing) ==
    IF editing # << >> THEN "updateProduct" ELSE "addProduct"

CurrentKey == << curPage, curPerPage >>

\* useQuery: loading while the cache holds nothing for the current variables
Loading == ~cache[CurrentKey].known

Entity(id) == CHOOSE r \in entities : r.id = id

\* data.products, the table's dataSource
Rows ==
    LET ids == cache[CurrentKey].ids
    IN  [i \in 1..Len(ids) |-> Entity(ids[i])]

\* the cache's normalised write of the records of a result
Merged(recs) ==
    { r \in entities : r.id \notin Ids(recs) } \cup { recs[i] : i \in 1..Len(recs) }

Mutations == { "addProduct", "updateProduct", "removeProduct" }

\* mutations sent whose handler has not resumed yet
InFlightMutations == { m \in net : m.kind \in Mutations }

(* ---- user actions ---- *)
\* "Add Product" button
ClickAddProduct ==
    /\ ~Loading /\ ~formVisible
    /\ formVisible' = TRUE
    /\ editingProduct' = << >>
    /\ fields' = FieldsFor(editingProduct')
    /\ uiLast' = UiStep("clickAdd", 0, "", "", 0, 0, "")
    /\ opened' = [by |-> "add", id |-> ""]
    /\ UNCHANGED << curPage, curPerPage, cache, entities, net, sent, lost >>
    /\ UNCHANGED << storeVars, callVars >>

\* a row's "Edit" button
ClickEdit ==
    \E i \in 1..Len(Rows) :
        /\ ~Loading /\ ~formVisible
        /\ editingProduct' = << Rows[i] >>
        /\ formVisible' = TRUE
        /\ fields' = FieldsFor(editingProduct')
        /\ uiLast' = UiStep("clickEdit", 0, "", "", 0, 0, Rows[i].id)
        /\ opened' = [by |-> "edit", id |-> Rows[i].id]
        /\ UNCHANGED << curPage, curPerPage, cache, entities, net, sent, lost >>
        /\ UNCHANGED << storeVars, callVars >>

\* the modal's Cancel (onCancel)
ClickCancel ==
    /\ ~Loading /\ formVisible
    /\ formVisible' = FALSE
    /\ editingProduct' = << >>
    /\ fields' = FieldsFor(editingProduct')
    /\ uiLast' = OtherStep
    /\ opened' = [by |-> "none", id |-> ""]
    /\ UNCHANGED << curPage, curPerPage, cache, entities, net, sent, lost >>
    /\ UNCHANGED << storeVars, callVars >>

\* typing into the form
TypeFields ==
    \E text \in TypedText :
        /\ ~Loading /\ formVisible
        /\ fields # << text >>
        /\ fields' = << text >>
        /\ uiLast' = OtherStep
        /\ UNCHANGED opened
        /\ UNCHANGED << formVisible, editingProduct, curPage, curPerPage, cache,
                        entities, net, sent, lost >>
        /\ UNCHANGED << storeVars, callVars >>

\* the modal's OK: validateFields passes when the required fields are filled;
\* onCreate sends the mutation with the refetchQueries of this render, then
\* form.resetFields()
ClickOk ==
    /\ ~Loading /\ formVisible
    /\ fields # << >>
    /\ sent + 2 <= MaxRequests
    /\ LET values == FormValues(fields[1])
           op == OnCreate(editingProduct)
           id == IF op = "updateProduct" /\ editingProduct # << >>
                 THEN editingProduct[1].id ELSE ""
       IN  /\ net' = net \cup { Message(sent + 1, "request", op, 0, 0, id, values,
                                       curPage, curPerPage) }
           /\ uiLast' = UiStep("submit", sent + 1, op, "", curPage, curPerPage, "")
    /\ UNCHANGED opened
    /\ sent' = sent + 2
    /\ fields' = FieldsFor(editingProduct)
    /\ UNCHANGED << formVisible, editingProduct, curPage, curPerPage, cache,
                    entities, lost >>
    /\ UNCHANGED << storeVars, callVars >>

\* a row's "Delete" button: handleDelete(record.id)
ClickDelete ==
    \E i \in 1..Len(Rows) :
        /\ ~Loading /\ ~formVisible
        /\ sent + 2 <= MaxRequests
        /\ net' = net \cup { Message(sent + 1, "request", "removeProduct", 0, 0,
                                    Rows[i].id, NoInput, curPage, curPerPage) }
        /\ uiLast' = UiStep("delete", sent + 1, "removeProduct", "", curPage, curPerPage, "")
        /\ UNCHANGED opened
        /\ sent' = sent + 2
        /\ UNCHANGED << formVisible, editingProduct, curPage, curPerPage, fields,
                        cache, entities, lost >>
        /\ UNCHANGED << storeVars, callVars >>

\* the table's pagination onChange: setPage, setPerPage; useQuery fetches the
\* new variables unless the cache has them or the fetch is already under way
ChangePage ==
    \E p \in ViewPages, pp \in ViewPerPages :
        /\ ~Loading /\ ~formVisible
        /\ << p, pp >> # CurrentKey
        /\ curPage' = p
        /\ curPerPage' = pp
        /\ IF cache[<< p, pp >>].known
              \/ \E m \in net : m.kind = "query" /\ m.page = p /\ m.perPage = pp
           THEN UNCHANGED << net, sent >>
           ELSE /\ sent + 1 <= MaxRequests
                /\ net' = net \cup { Message(sent + 1, "request", "query", p, pp, "",
                                            NoInput, 0, 0) }
                /\ sent' = sent + 1
        /\ uiLast' = OtherStep
        /\ UNCHANGED opened
        /\ UNCHANGED << formVisible, editingProduct, fields, cache, entities,
                        lost >>
        /\ UNCHANGED << storeVars, callVars >>

(* ---- the network and the server ---- *)
Response(m, res) == [m EXCEPT !.dir = "response", !.res = res]

Failure(m) == [m EXCEPT !.dir = "response", !.res = Null, !.error = "Failed to fetch"]

\* the server runs the resolver of a request that has arrived
Serve ==
    \E m \in net :
        /\ m.dir = "request"
        /\ CASE m.kind \in { "query", "refetch" } ->
                  /\ net' = (net \ { m }) \cup
                            { Response(m, List(ProductsPage(products, m.page, m.perPage))) }
                  /\ UNCHANGED << products, nextId >>
             [] m.kind = "addProduct" ->
                  LET newProduct == NewProduct(nextId, m.name, m.price, m.stock)
                  IN  /\ nextId' = nextId + 1
                      /\ products' = Push(products, newProduct)
                      /\ net' = (net \ { m }) \cup { Response(m, One(newProduct)) }
             [] m.kind = "updateProduct" ->
                  /\ products' = UpdateProductList(products, m.id, m.name, m.price, m.stock)
                  /\ net' = (net \ { m }) \cup
                            { Response(m, UpdateProductRet(products, m.id, m.name,
                                                           m.price, m.stock)) }
                  /\ UNCHANGED nextId
             [] m.kind = "removeProduct" ->
                  /\ products' = RemoveProductList(products, m.id)
                  /\ net' = (net \ { m }) \cup { Response(m, RemoveProductRet(products, m.id)) }
                  /\ UNCHANGED nextId
        /\ uiLast' = OtherStep
        /\ UNCHANGED opened
        /\ UNCHANGED << last, ret, pre, issued, removed, callVars >>
        /\ UNCHANGED << formVisible, editingProduct, curPage, curPerPage, fields,
                        cache, entities, sent, lost >>

\* a mutation that does not reach the server, or whose response does not
\* reach the page
Lose ==
    \E m \in net :
        /\ m.kind \in Mutations
        /\ m.error = ""
        /\ net' = (net \ { m }) \cup { Failure(m) }
        /\ uiLast' = OtherStep
        /\ lost' = TRUE
        /\ UNCHANGED << storeVars, callVars >>
        /\ UNCHANGED << formVisible, editingProduct, curPage, curPerPage, fields,
                        cache, entities, sent, opened >>

(* ---- the page receives ---- *)
\* the result of a query or of a refetch is written to the cache
ReceiveProducts ==
    \E m \in net :
        /\ m.dir = "response"
        /\ m.kind \in { "query", "refetch" }
        /\ cache' = [cache EXCEPT ![<< m.page, m.perPage >>] =
                        [known |-> TRUE, ids |-> [i \in 1..Len(m.res.val) |-> m.res.val[i].id]]]
        /\ entities' = Merged(m.res.val)
        /\ net' = net \ { m }
        /\ uiLast' = OtherStep
        /\ UNCHANGED opened
        /\ UNCHANGED << formVisible, editingProduct, curPage, curPerPage, fields,
                        sent, lost >>
        /\ UNCHANGED << storeVars, callVars >>

\* refetchQueries: [{ query: GET_PRODUCTS, variables: { page, perPage } }],
\* with the variables the mutation was sent with
Refetch(m) ==
    Message(m.n + 1, "request", "refetch", m.rpage, m.rperPage, "", NoInput, 0, 0)

SuccessNote(m) ==
    [kind |-> "success",
     message |-> CASE m.kind = "addProduct" -> "Product added successfully"
                   [] m.kind = "updateProduct" -> "Product updated successfully"
                   [] m.kind = "removeProduct" -> "Product removed successfully",
     description |-> "", n |-> m.n]

\* the catch block announcing a success
ErrorNoteAsSuccess(m, description) ==
    [kind |-> "success", message |-> "Product updated successfully",
     description |-> description, n |-> m.n]

ErrorNote(m, description) ==
    [kind |-> "error",
     message |-> IF m.kind = "removeProduct"
                 THEN "Error removing product" ELSE "Error updating product",
     description |-> description, n |-> m.n]

\* data.updateProduct.name with data.updateProduct null
NullName == "Cannot read properties of null (reading 'name')"

\* await <mutation> throws: the catch block of handleCreate, handleUpdate or
\* handleDelete
MutationFailed ==
    \E m \in net :
        /\ m.dir = "response"
        /\ m.kind \in Mutations
        /\ m.error # ""
        /\ net' = net \ { m }
        /\ uiLast' = [UiStep("completed", m.n, m.kind, "failure", 0, 0, m.error)
                         EXCEPT !.shown = << ErrorNote(m, m.error) >>]
        /\ UNCHANGED << formVisible, editingProduct, fields, curPage, curPerPage,
                        cache, entities, sent, lost, opened >>
        /\ UNCHANGED << storeVars, callVars >>

\* await <mutation> returns: the result is written to the cache, the
\* refetch is sent, and the handler goes on after its await
MutationReturned ==
    \E m \in net :
        /\ m.dir = "response"
        /\ m.kind \in Mutations
        /\ m.error = ""
        /\ entities' = IF m.kind = "removeProduct" THEN entities ELSE Merged(m.res.val)
        /\ net' = (net \ { m }) \cup { Refetch(m) }
        /\ CASE m.kind = "addProduct" ->
                  /\ formVisible' = FALSE
                  /\ UNCHANGED editingProduct
                  /\ uiLast' = [UiStep("completed", m.n, m.kind, "success",
                                       m.rpage, m.rperPage, m.res.kind)
                                   EXCEPT !.shown = << SuccessNote(m) >>]
             [] m.kind = "updateProduct" /\ m.res.kind = "null" ->
                  /\ UNCHANGED << formVisible, editingProduct >>
                  /\ uiLast' = [UiStep("completed", m.n, m.kind, "failure",
                                       m.rpage, m.rperPage, NullName)
                                   EXCEPT !.shown = << ErrorNote(m, NullName) >>]
             [] m.kind = "updateProduct" /\ m.res.kind # "null" ->
                  /\ formVisible' = FALSE
                  /\ editingProduct' = << >>
                  /\ uiLast' = [UiStep("completed", m.n, m.kind, "success",
                                       m.rpage, m.rperPage, m.res.kind)
                                   EXCEPT !.shown = << SuccessNote(m) >>]
             [] m.kind = "removeProduct" ->
                  /\ UNCHANGED << formVisible, editingProduct >>
                  /\ uiLast' = [UiStep("completed", m.n, m.kind, "success",
                                       m.rpage, m.rperPage, m.res.kind)
                                   EXCEPT !.shown = << SuccessNote(m) >>]
        /\ fields' = IF formVisible' # formVisible \/ editingProduct' # editingProduct
                     THEN FieldsFor(editingProduct')
                     ELSE fields
        /\ opened' = IF formVisible' THEN opened ELSE [by |-> "none", id |-> ""]
        /\ UNCHANGED << curPage, curPerPage, cache, sent, lost >>
        /\ UNCHANGED << storeVars, callVars >>

NextView ==
    \/ ClickAddProduct
    \/ ClickEdit
    \/ ClickCancel
    \/ TypeFields
    \/ ClickOk
    \/ ClickDelete
    \/ ChangePage
    \/ Serve
    \/ Lose
    \/ ReceiveProducts
    \/ MutationFailed
    \/ MutationReturned

SpecView == Init /\ [][NextView]_vars

\* the same page with the pagination left alone
NextViewFixedPage ==
    \/ ClickAddProduct
    \/ ClickEdit
    \/ ClickCancel
    \/ TypeFields
    \/ ClickOk
    \/ ClickDelete
    \/ Serve
    \/ Lose
    \/ ReceiveProducts
    \/ MutationFailed
    \/ MutationReturned

SpecViewFixedPage == Init /\ [][NextViewFixedPage]_vars

(* ------------------------------------------------------------------- *)
(* Properties                                                            *)
(* ------------------------------------------------------------------- *)
Range(arr) == { arr[i] : i \in 1..Len(arr) }

IdSeq(arr) == [i \in 1..Len(arr) |-> arr[i].id]

\* ceil(len / perPage) for perPage >= 1
Ceil(len, perPage) == (len + perPage - 1) \div perPage

\* the elements of arr at the 0-based indices i with from <= i < to
IndexRange(arr, from, to) ==
    LET lo == Max(from, 0)
        hi == Min(to, Len(arr))
    IN  IF hi > lo THEN SubSeq(arr, lo + 1, hi) ELSE << >>

\* the decimal numerals, written out
Decimal == << "1", "2", "3", "4", "5", "6", "7", "8", "9", "10", "11", "12" >>

StoreUnchanged == products = pre.products /\ nextId = pre.nextId

LastRecord == [id |-> last.id, name |-> last.name, price |-> last.price, stock |-> last.stock]

\* C1: no two records of the live list have the same id.
C1_UniqueIds ==
    \A i, j \in 1..Len(products) : i # j => products[i].id # products[j].id

C1_Witness ==
    /\ Len(products) >= 2
    /\ removed # {}
    /\ last.op = "updateProduct"
    /\ ret.kind = "product"

\* C2: the k-th addProduct returns the decimal numeral of k, so every id
\* handed out differs from all handed out before, also from those of records
\* already removed, and a removed id is never in the list again.
C2_SequentialIds ==
    /\ \A k \in 1..Len(issued) : k <= Len(Decimal) => issued[k] = Decimal[k]
    /\ \A i, j \in 1..Len(issued) : i # j => issued[i] # issued[j]
    /\ last.op = "addProduct" =>
          /\ ret.val[1].id = issued[Len(issued)]
          /\ ret.val[1].id \notin pre.removed
          /\ ret.val[1].id \notin Ids(pre.products)
    /\ Ids(products) \cap removed = {}

C2_Witness ==
    /\ last.op = "addProduct"
    /\ Len(issued) >= 3
    /\ pre.removed # {}
    /\ Len(pre.products) < Len(issued) - 1

\* C3: addProduct returns a record with an id that was not in the list and
\* exactly the given name, price and stock; the record is appended as the last
\* element, the earlier records keep position and values, and for every
\* perPage >= 1 the page ceil(newLength/perPage) contains it.
C3_AddAppends ==
    last.op = "addProduct" =>
        /\ ret.kind = "product"
        /\ ret.val[1].id \notin Ids(pre.products)
        /\ ret.val[1].name = last.name
        /\ ret.val[1].price = last.price
        /\ ret.val[1].stock = last.stock
        /\ Len(products) = Len(pre.products) + 1
        /\ products[Len(products)] = ret.val[1]
        /\ \A i \in 1..Len(pre.products) : products[i] = pre.products[i]
        /\ \A perPage \in 1..(MaxPerPage + MaxAdds) :
              ret.val[1] \in
                  Range(ProductsPage(products, Ceil(Len(products), perPage), perPage))

C3_Witness ==
    /\ last.op = "addProduct"
    /\ Len(pre.products) >= 2
    /\ pre.removed # {}

\* C4: updateProduct on an id in the list returns the record with that id and
\* the given fields and puts it at the position of the old one: same length,
\* same order of ids, every other record and the id counter unchanged.
C4_UpdateInPlace ==
    (last.op = "updateProduct" /\ last.id \in Ids(pre.products)) =>
        /\ ret = One(LastRecord)
        /\ Len(products) = Len(pre.products)
        /\ IdSeq(products) = IdSeq(pre.products)
        /\ \A i \in 1..Len(pre.products) :
              products[i] = IF pre.products[i].id = last.id
                            THEN LastRecord
                            ELSE pre.products[i]
        /\ nextId = pre.nextId

C4_Witness ==
    /\ last.op = "updateProduct"
    /\ Len(pre.products) >= 3
    /\ pre.products[2].id = last.id
    /\ products # pre.products

\* C5: updateProduct on an id that is not in the list returns null and leaves
\* the list and the id counter as they were; no record is created.
C5_UpdateMissing ==
    (last.op = "updateProduct" /\ last.id \notin Ids(pre.products)) =>
        /\ ret = Null
        /\ StoreUnchanged

C5_Witness ==
    /\ last.op = "updateProduct"
    /\ last.id \in pre.removed
    /\ products # << >>
    /\ ret.kind = "null"

\* C6: removeProduct on an id in the list returns the record stored under it,
\* shortens the list by one, keeps the other records in order and unchanged,
\* and afterwards no listing contains a removed id.
C6_RemovePresent ==
    /\ (last.op = "removeProduct" /\ last.id \in Ids(pre.products)) =>
          /\ ret.kind = "product"
          /\ ret.val[1] \in Range(pre.products)
          /\ ret.val[1].id = last.id
          /\ Len(products) = Len(pre.products) - 1
          /\ products = SelectSeq(pre.products, LAMBDA r : r.id # last.id)
    /\ \A page \in Pages, perPage \in PerPages :
          Ids(ProductsPage(products, page, perPage)) \cap removed = {}
    /\ last.op = "products" => Ids(ret.val) \cap removed = {}

C6_Witness ==
    /\ last.op = "removeProduct"
    /\ ret.kind = "product"
    /\ Len(pre.products) >= 3
    /\ pre.products[2].id = last.id

\* C7: removeProduct on an id that is not in the list returns null and leaves
\* the list and the id counter as they were; so a second removeProduct of an id
\* already removed returns no record and changes nothing.
C7_RemoveMissing ==
    /\ (last.op = "removeProduct" /\ last.id \notin Ids(pre.products)) =>
          /\ ret = Null
          /\ StoreUnchanged
    /\ (last.op = "removeProduct" /\ last.id \in pre.removed) =>
          /\ ret = Null
          /\ StoreUnchanged

C7_Witness ==
    /\ last.op = "removeProduct"
    /\ last.id \in pre.removed
    /\ Len(products) >= 2
    /\ Len(issued) >= 3

\* C8: the products query returns the records at the indices from
\* (page-1)*perPage up to but excluding page*perPage, in list order, and
\* leaves the list and the id counter unchanged.
C8_QueryIsIndexRange ==
    last.op = "products" =>
        /\ ret.val = IndexRange(pre.products, (last.page - 1) * last.perPage,
                                last.page * last.perPage)
        /\ StoreUnchanged

\* C9: for perPage >= 1, a page outside 1..ceil(length/perPage), zero and
\* negative pages included, yields the empty list.
C9_OutOfRangeEmpty ==
    (/\ last.op = "products"
     /\ last.perPage >= 1
     /\ last.page \notin 1..Ceil(Len(pre.products), last.perPage)) =>
        ret.val = << >>

\* C10: for every (page, perPage) the query returns at most perPage records,
\* and they are the contiguous run of the list starting at offset
\* (page-1)*perPage.
C10_AtMostPerPageFromOffset ==
    last.op = "products" =>
        /\ Len(ret.val) <= last.perPage
        /\ \E n \in 0..Len(pre.products) :
              ret.val = IndexRange(pre.products, (last.page - 1) * last.perPage,
                                   (last.page - 1) * last.perPage + n)

\* C11: with several clients' requests at the server at once, every request
\* sees and produces only states of a serial execution of whole requests: a
\* resolver finds the store as the completed requests left it, its result
\* and effect are those of the whole operation on that store, no listing
\* sees a half-applied mutation, and ids stay unique.
C11_RequestsAreSerial ==
    /\ \A c \in Clients :
          calls[c].pc # "idle" =>
              /\ running = c
              /\ products = calls[c].seen.products
              /\ calls[c].seen.products = serial.products
              /\ calls[c].seen.nextId = serial.nextId
    /\ running = 0 => (products = serial.products /\ nextId = serial.nextId)
    /\ last.op = "products" =>
          /\ ret = List(ProductsPage(pre.products, last.page, last.perPage))
          /\ running = 0 => (pre.products = serial.products /\ pre.nextId = serial.nextId)
    /\ last.op = "addProduct" =>
          /\ ret.val[1].id \notin Ids(pre.products)
          /\ running = 0 => products = Append(pre.products, ret.val[1])
    /\ (last.op = "updateProduct" /\ running = 0) =>
          /\ products = UpdateProductList(pre.products, last.id, last.name,
                                          last.price, last.stock)
          /\ ret = UpdateProductRet(pre.products, last.id, last.name,
                                    last.price, last.stock)
    /\ (last.op = "removeProduct" /\ running = 0) =>
          /\ products = RemoveProductList(pre.products, last.id)
          /\ ret = RemoveProductRet(pre.products, last.id)
    /\ \A i, j \in 1..Len(products) : i # j => products[i].id # products[j].id

C11_Witness ==
    /\ \E c \in Clients : calls[c].pc = "splice" /\ calls[c].productIndex = 0
    /\ last.op = "removeProduct"
    /\ ret.kind = "product"
    /\ Len(products) >= 1

FormSubmissions == { "addProduct", "updateProduct" }

\* C12: the page has at most one mutation in flight at any time.
C12_OneMutationInFlight ==
    Cardinality(InFlightMutations) <= 1

\* C13: when the mutation of a form submission fails, the handler leaves the
\* form as it was (an open form stays open, the selected record stays), an
\* error notification carrying the failure's message is shown, and no success
\* notification is shown for that submission.
C13_FailureKeepsForm ==
    (/\ uiLast.event = "completed"
     /\ uiLast.outcome = "failure"
     /\ uiLast.op \in FormSubmissions) =>
        /\ formVisible = uiLast.wasVisible
        /\ editingProduct = uiLast.wasEditing
        /\ Len(uiLast.shown) = 1
        /\ uiLast.shown[1].kind = "error"
        /\ uiLast.shown[1].n = uiLast.n
        /\ uiLast.shown[1].description = uiLast.detail
        /\ uiLast.detail # ""
        /\ \A i \in 1..Len(uiLast.shown) : uiLast.shown[i].kind # "success"

C13_Witness ==
    /\ uiLast.event = "completed"
    /\ uiLast.outcome = "failure"
    /\ uiLast.op = "updateProduct"
    /\ uiLast.detail = "Failed to fetch"
    /\ formVisible
    /\ editingProduct # << >>

\* C14: when the mutation of a form submission succeeds, the form closes (in
\* edit mode the selected record is cleared too) and the list is refetched
\* with the page and perPage that are current at that moment.
C14_SuccessClosesAndRefetchesCurrent ==
    (/\ uiLast.event = "completed"
     /\ uiLast.outcome = "success"
     /\ uiLast.op \in FormSubmissions) =>
        /\ formVisible = FALSE
        /\ uiLast.op = "updateProduct" => editingProduct = << >>
        /\ \E m \in net :
              /\ m.kind = "refetch"
              /\ m.n = uiLast.n + 1
              /\ m.page = curPage
              /\ m.perPage = curPerPage

\* C15: after "Add Product" the form is open with no record selected and
\* empty fields; after a row's "Edit" it is open with that row's record
\* selected and its name, price and stock in the fields; submitting a form
\* opened by "Add Product" sends addProduct, and submitting one opened by
\* "Edit" sends updateProduct with that record's id.
C15_ModeFollowsTrigger ==
    /\ uiLast.event = "clickAdd" =>
          /\ formVisible
          /\ editingProduct = << >>
          /\ fields = << >>
    /\ uiLast.event = "clickEdit" =>
          /\ formVisible
          /\ Len(editingProduct) = 1
          /\ editingProduct[1].id = uiLast.detail
          /\ editingProduct[1] \in entities
          /\ Len(fields) = 1
          /\ fields[1].name = editingProduct[1].name
          /\ ParseDigits(fields[1].price) = editingProduct[1].price
          /\ ParseDigits(fields[1].stock) = editingProduct[1].stock
    /\ uiLast.event = "submit" =>
          \E m \in net :
              /\ m.n = uiLast.n
              /\ opened.by \in { "add", "edit" }
              /\ opened.by = "add" => m.kind = "addProduct"
              /\ opened.by = "edit" => (m.kind = "updateProduct" /\ m.id = opened.id)

C15_Witness ==
    /\ uiLast.event = "submit"
    /\ opened.by = "edit"
    /\ Len(products) >= 2
    /\ Cardinality(InFlightMutations) >= 2

\* C16: once every mutation and every refetch has completed, the rows in the
\* table are the store's products(page, perPage) for the page's current page
\* and perPage.
C16_ViewAgreesWhenQuiet ==
    (net = {} /\ ~lost /\ ~Loading) =>
        Rows = ProductsPage(products, curPage, curPerPage)

\* C17: a success notification is shown only for a mutation that added,
\* replaced or removed a record in the store.
C17_SuccessMeansChanged ==
    (/\ uiLast.event = "completed"
     /\ \E i \in 1..Len(uiLast.shown) : uiLast.shown[i].kind = "success") =>
        uiLast.detail # "null"

\* C18: a selected record implies an open form.
C18_SelectedImpliesOpen ==
    editingProduct # << >> => formVisible

====
